---------------------------- MODULE Spec2Model ----------------------------
(***************************************************************************)
(* Model of excitation/postureOptimizer.py (class PostureOptimizer):       *)
(* the neighbour map built by the constructor, the collision constraint    *)
(* vector and incumbent tracking of objectiveFunc, and the variable and    *)
(* constraint declaration of addVarsAndConstraints.                        *)
(*                                                                         *)
(* Reals are modelled by integers (10.0 is 10, np.inf is Inf).  Python     *)
(* lists are sequences; indices of links and slots stay 0-based as in the  *)
(* code, sequences of TLA+ are 1-based and the accessors convert.          *)
(***************************************************************************)
EXTENDS Integers, Sequences, FiniteSets, TLC

VARIABLES
    pc,            \* position of the program: constructor, formulation, solver loop
    idyn_model,    \* self.idyn_model: the kinematic tree loaded from the URDF
    config,        \* self.config
    neighbors,     \* self.neighbors: link name -> [links, joints]
    link_l,        \* loop variable l of the merge pass (line 74)
    nb_i,          \* position of the list iterator of line 76 (1-based)
    world,         \* the geometry and identification collaborators (deterministic)
    dynComp_q,     \* joint configuration held by self.model.dynComp
    iter_cnt,      \* self.iter_cnt
    budget,        \* number of objective calls the solver issues in this run
    last_best_f,   \* self.last_best_f
    last_best_sol, \* self.last_best_sol
    opt_prob,      \* the pyOpt problem: objectives, variables, constraint groups
    graph,         \* self.xar, self.yar, self.x_constr
    last,          \* the latest objectiveFunc call: its inputs, result and trace
    ref            \* one earlier objectiveFunc call, kept for comparison

vars == << pc, idyn_model, config, neighbors, link_l, nb_i, world, dynComp_q,
           iter_cnt, budget, last_best_f, last_best_sol, opt_prob, graph,
           last, ref >>

----------------------------------------------------------------------------
(* Bounds of the model *)

\* links of the kinematic trees explored by the constructor's merge pass
MaxLinks == 4
\* links of the robot in the evaluation runs
NumLinks == 3
\* largest numStaticPostures
MaxPostures == 2
\* largest num_dofs
MaxDofs == 2
\* number of distinct design vectors the solver proposes
NumCandidates == 4
\* objective calls per run in the multi-call runs
MaxIter == 3
\* number of geometry and identification collaborators tried
NumWorlds == 2

(* Program constants *)

\* the value written for a pair that is not checked (lines 167, 171, 177)
IgnoredDistance == 10
\* np.inf (line 268)
Inf == 1000
\* self.posture_time = 0.05, in hundredths (line 40)
posture_time == 5

LinkNameList == << "A", "B", "C", "D", "E", "F" >>
JointNameList == << "j1", "j2", "j3", "j4", "j5" >>

Range(s) == { s[i] : i \in DOMAIN s }

----------------------------------------------------------------------------
(* The kinematic model (iDynTree.Model): a tree of links 0..n-1; joint j   *)
(* (1..n-1) connects link parent[j] with link j and is fixed or movable.   *)

Models(n) ==
    { [n |-> n, parent |-> p, fixed |-> f] :
        p \in { q \in [1..(n-1) -> 0..(n-2)] : \A j \in 1..(n-1) : q[j] < j },
        f \in [1..(n-1) -> BOOLEAN] }

getNrOfLinks(m) == m.n
getLinkName(l) == LinkNameList[l + 1]
getLinkIndex(name) == CHOOSE l \in 0..(Len(LinkNameList) - 1) : getLinkName(l) = name
getJointName(j) == JointNameList[j]
getJointIndex(name) == CHOOSE j \in 1..Len(JointNameList) : getJointName(j) = name
isFixedJoint(m, j) == m.fixed[j]
getFirstAttachedLink(m, j) == m.parent[j]
getSecondAttachedLink(m, j) == j

\* the joints attached to link l, in joint order: getNeighbor(l, 0..)
JointsOf(m, l) ==
    LET Attached(j) == m.parent[j] = l \/ j = l
    IN  SelectSeq([j \in 1..(m.n - 1) |-> j], Attached)

getNrOfNeighbors(m, l) == Len(JointsOf(m, l))

\* getNeighbor(l, k): the link and the joint of the k-th neighbour (1-based)
getNeighbor(m, l, k) ==
    LET j == JointsOf(m, l)[k]
    IN  [neighborLink |-> IF m.parent[j] = l THEN j ELSE m.parent[j],
         neighborJoint |-> j]

LinkNames(m) == { getLinkName(l) : l \in 0..(m.n - 1) }

----------------------------------------------------------------------------
(* __init__, lines 59-70: the direct neighbours of every link *)

DirectNeighbors(m) ==
    [ name \in LinkNames(m) |->
        LET l == getLinkIndex(name)
            num_neighbors == getNrOfNeighbors(m, l)
        IN  [ links  |-> [k \in 1..num_neighbors |->
                            getLinkName(getNeighbor(m, l, k).neighborLink)],
              joints |-> [k \in 1..num_neighbors |->
                            getJointName(getNeighbor(m, l, k).neighborJoint)] ] ]

(* __init__, line 73: dict.copy() is a shallow copy, so neighbors_tmp maps  *)
(* every link name to the very same inner dict (and lists) as neighbors:    *)
(* reading neighbors_tmp[name] reads the current lists.                     *)
neighbors_tmp(nbrs) == nbrs

(* lines 78-89 without the test nb_fixed != l of line 88 *)
MergeJointNoSelfTest(m, links, l, nb, j_name) ==
    LET j == getJointIndex(j_name)
        j_l0 == getFirstAttachedLink(m, j)
        j_l1 == getSecondAttachedLink(m, j)
        nb_fixed == IF j_l0 = getLinkIndex(nb) THEN j_l1 ELSE j_l0
        nb_fixed_name == getLinkName(nb_fixed)
    IN  IF isFixedJoint(m, j) /\ nb_fixed_name \notin Range(links)
        THEN Append(links, nb_fixed_name)
        ELSE links

(* lines 78-89: one joint of a neighbour nb of link l *)
MergeJoint(m, links, l, nb, j_name) ==
    LET j == getJointIndex(j_name)
        j_l0 == getFirstAttachedLink(m, j)
        j_l1 == getSecondAttachedLink(m, j)
        nb_fixed == IF j_l0 = getLinkIndex(nb) THEN j_l1 ELSE j_l0
        nb_fixed_name == getLinkName(nb_fixed)
    IN  IF isFixedJoint(m, j) /\ nb_fixed # l /\ nb_fixed_name \notin Range(links)
        THEN Append(links, nb_fixed_name)
        ELSE links

(* lines 77-89: all joints of neighbour nb, read from neighbors_tmp *)
RECURSIVE MergeJointsFrom(_, _, _, _, _, _)
MergeJointsFrom(m, links, l, nb, joints, k) ==
    IF k > Len(joints) THEN links
    ELSE MergeJointsFrom(m, MergeJoint(m, links, l, nb, joints[k]), l, nb, joints, k + 1)

(* lines 76-89 for one element nb of the list being iterated *)
MergeNb(m, nbrs, l, nb) ==
    LET link_name == getLinkName(l)
        links == MergeJointsFrom(m, nbrs[link_name].links, l, nb,
                                 neighbors_tmp(nbrs)[nb].joints, 1)
    IN  [nbrs EXCEPT ![link_name].links = links]

(* lines 74-89 run to completion from loop position (l, i) *)
RECURSIVE MergeFrom(_, _, _, _)
MergeFrom(m, nbrs, l, i) ==
    IF l >= getNrOfLinks(m) THEN nbrs
    ELSE LET lst == neighbors_tmp(nbrs)[getLinkName(l)].links
         IN  IF i > Len(lst) THEN MergeFrom(m, nbrs, l + 1, 1)
             ELSE MergeFrom(m, MergeNb(m, nbrs, l, lst[i]), l, i + 1)

(* the neighbour map the constructor leaves *)
Constructed(m) == MergeFrom(m, DirectNeighbors(m), 0, 1)

----------------------------------------------------------------------------
(* The collaborators.  The kinematics model, fcl and the simulate/identify  *)
(* pipeline are deterministic functions of what they are handed; `world`    *)
(* selects one such function.                                               *)

RECURSIVE SumSeq(_)
SumSeq(s) == IF s = << >> THEN 0 ELSE Head(s) + SumSeq(Tail(s))

RECURSIVE WeightedSum(_, _)
WeightedSum(s, k) == IF s = << >> THEN 0 ELSE k * Head(s) + WeightedSum(Tail(s), k + 1)

\* Python x[a:b]
Slice(x, a, b) == SubSeq(x, a + 1, b)

\* what fcl.distance and fcl.collide report for two placed boxes; a
\* penetration depth is the magnitude of the overlap
FclOutcomes ==
    << [distance |-> 2,  contacts |-> << >>],
       [distance |-> -1, contacts |-> << [penetration_depth |-> 1] >>],
       [distance |-> 0,  contacts |-> << >>],
       [distance |-> -1, contacts |-> << >>],
       [distance |-> 1,  contacts |-> << >>] >>

Worlds == 0..(NumWorlds - 1)

\* self.model.linkNames[l]
model_linkNames(l) == getLinkName(l)

\* dynComp.getWorldTransform(getFrameIndex(name)): the pose of a link is a
\* function of the robot state the model currently holds
getWorldTransform(robot_q, name) == [frame |-> getLinkIndex(name), q |-> robot_q]

\* fcl.CollisionObject(box of link l, transform) (lines 114-121)
CollisionObject(l, t) == [hull |-> l, pose |-> t]

\* fcl.distance / fcl.collide on two collision objects (lines 123, 132)
FclQuery(w, o0, o1) ==
    FclOutcomes[ ((w + o0.hull + 2 * o1.hull + o0.pose.frame + o1.pose.frame
                     + WeightedSum(o0.pose.q, 1) + WeightedSum(o1.pose.q, 1))
                  % Len(FclOutcomes)) + 1 ]

\* sim_func, idf.estimateParameters and the parameter error norm (lines 190-206)
SimIdentify(w, angles) ==
    (w + SumSeq([n \in 1..Len(angles) |->
                    angles[n].start_time + WeightedSum(angles[n].angles, n)])) % 3

----------------------------------------------------------------------------
(* testConstraints, lines 94-95 *)

testConstraints(g) == \A i \in 1..Len(g) : g[i] > 0

(* getLinkDistance reading the link poses before setRobotState takes effect *)
getLinkDistanceStale(w, robot_q, l0, l1, joint_q) ==
    LET t0 == getWorldTransform(robot_q, model_linkNames(l0))
        t1 == getWorldTransform(robot_q, model_linkNames(l1))
        r == FclQuery(w, CollisionObject(l0, t0), CollisionObject(l1, t1))
        distance == r.distance
    IN  [ robot_q |-> joint_q,
          overlap |-> distance < 0,
          distance |-> IF distance < 0 /\ Len(r.contacts) > 0
                       THEN r.contacts[1].penetration_depth
                       ELSE distance ]

(* getLinkDistance, lines 97-138: the new robot state, the value returned   *)
(* and whether fcl.distance reported an overlap                             *)
getLinkDistance(w, robot_q, l0, l1, joint_q) ==
    LET q == joint_q                      \* setRobotState(q, ...), line 102
        t0 == getWorldTransform(q, model_linkNames(l0))
        t1 == getWorldTransform(q, model_linkNames(l1))
        r == FclQuery(w, CollisionObject(l0, t0), CollisionObject(l1, t1))
        distance == r.distance
    IN  [ robot_q |-> q,
          overlap |-> distance < 0,
          distance |-> IF distance < 0 /\ Len(r.contacts) > 0
                       THEN r.contacts[1].penetration_depth
                       ELSE distance ]

(* vecToParam, lines 270-278 *)
vecToParam(cfg, x) ==
    [ n \in 1..cfg.numStaticPostures |->
        [ start_time |-> (n - 1) * posture_time,
          angles |-> Slice(x, (n - 1) * cfg.num_dofs, n * cfg.num_dofs) ] ]

\* line 39
num_constraints(cfg, m) == cfg.numStaticPostures * ((m.n * (m.n - 1)) \div 2)

----------------------------------------------------------------------------
(* objectiveFunc, lines 150-183: the constraint loop.  The loop state st    *)
(* holds g, g_cnt, the robot state, and a trace of the run: how often each  *)
(* slot was written, where each (posture, pair) was written, which pairs    *)
(* went to getLinkDistance, and whether a write fell outside g.             *)

\* g[g_cnt] = v; g_cnt += 1
WriteSlot(st, p, l0, l1, v) ==
    IF st.g_cnt + 1 > Len(st.g)
    THEN [st EXCEPT !.oob = TRUE, !.g_cnt = st.g_cnt + 1]
    ELSE [st EXCEPT !.g[st.g_cnt + 1] = v,
                    !.writes[st.g_cnt + 1] = st.writes[st.g_cnt + 1] + 1,
                    !.slot_of = st.slot_of @@ (<<p, l0, l1>> :> st.g_cnt),
                    !.g_cnt = st.g_cnt + 1]

\* the tests of lines 165-179 that give a pair the fixed value
IsIgnoredLink(cfg, l0_name, l1_name) ==
    l0_name \in cfg.ignoreLinksForCollision \/ l1_name \in cfg.ignoreLinksForCollision

IsIgnoredPair(cfg, l0_name, l1_name) ==
    << l0_name, l1_name >> \in cfg.ignoreLinkPairsForCollision

\* line 176 with only its first test
IsNeighborPairOneWay(nbrs, l0_name, l1_name) ==
    l0_name \in Range(nbrs[l1_name].links)

\* line 176
IsNeighborPair(nbrs, l0_name, l1_name) ==
    l0_name \in Range(nbrs[l1_name].links) \/ l1_name \in Range(nbrs[l0_name].links)

\* lines 167-168
IgnoredLinkBranch(st, p, l0, l1) == WriteSlot(st, p, l0, l1, IgnoredDistance)

\* lines 171-172
IgnoredPairBranch(st, p, l0, l1) == WriteSlot(st, p, l0, l1, IgnoredDistance)

\* lines 177-178 with the increment of g_cnt left out
NeighborBranchNoCount(st, p, l0, l1) ==
    [st EXCEPT !.g[st.g_cnt + 1] = IgnoredDistance,
               !.writes[st.g_cnt + 1] = st.writes[st.g_cnt + 1] + 1,
               !.slot_of = st.slot_of @@ (<<p, l0, l1>> :> st.g_cnt)]

\* lines 177-178
NeighborBranch(st, p, l0, l1) == WriteSlot(st, p, l0, l1, IgnoredDistance)

\* lines 159-183 for one (p, l0, l1)
LoopBody(cfg, nbrs, w, st, p, l0, l1, q) ==
    IF l0 > l1 THEN st
    ELSE IF l0 = l1 THEN st
    ELSE LET l0_name == model_linkNames(l0)
             l1_name == model_linkNames(l1)
         IN  IF IsIgnoredLink(cfg, l0_name, l1_name)
             THEN IgnoredLinkBranch(st, p, l0, l1)
             ELSE IF IsIgnoredPair(cfg, l0_name, l1_name)
             THEN IgnoredPairBranch(st, p, l0, l1)
             ELSE IF IsNeighborPair(nbrs, l0_name, l1_name)
             THEN NeighborBranch(st, p, l0, l1)
             ELSE IF l0 < l1
             THEN LET d == getLinkDistance(w, st.robot_q, l0, l1, q)
                      st1 == [st EXCEPT !.robot_q = d.robot_q,
                                        !.calls = st.calls \cup {<<p, l0, l1>>},
                                        !.overlaps = IF d.overlap
                                                     THEN st.overlaps \cup {<<p, l0, l1>>}
                                                     ELSE st.overlaps]
                  IN  WriteSlot(st1, p, l0, l1, d.distance)
             ELSE st

\* the three nested loops of lines 155-158, iteration k (0-based) onwards
RECURSIVE ConstraintLoop(_, _, _, _, _, _, _)
ConstraintLoop(cfg, m, nbrs, w, x, st, k) ==
    LET per_posture == (m.n - 1) * m.n
    IN  IF st.oob THEN st      \* IndexError: the loop is left
        ELSE IF k >= cfg.numStaticPostures * per_posture THEN st
        ELSE LET p == k \div per_posture
                 l0 == (k % per_posture) \div m.n
                 l1 == k % m.n
                 q == Slice(x, p * cfg.num_dofs, (p + 1) * cfg.num_dofs)
             IN  ConstraintLoop(cfg, m, nbrs, w, x,
                                LoopBody(cfg, nbrs, w, st, p, l0, l1, q), k + 1)

\* lines 150-183
Constraints(cfg, m, nbrs, w, robot_q, x) ==
    ConstraintLoop(cfg, m, nbrs, w, x,
        [ g |-> [i \in 1..num_constraints(cfg, m) |-> 0],
          g_cnt |-> 0,
          robot_q |-> robot_q,
          writes |-> [i \in 1..num_constraints(cfg, m) |-> 0],
          slot_of |-> << >>,
          calls |-> {},
          overlaps |-> {},
          oob |-> FALSE ], 0)

(* lines 225-227 without the test of c *)
UpdateIncumbentIgnoringConstraints(c, f, x, best_f, best_sol) ==
    IF f < best_f THEN [f |-> f, sol |-> x] ELSE [f |-> best_f, sol |-> best_sol]

(* lines 224-229: the incumbent after a call *)
UpdateIncumbent(c, f, x, best_f, best_sol) ==
    IF c /\ f < best_f THEN [f |-> f, sol |-> x] ELSE [f |-> best_f, sol |-> best_sol]

----------------------------------------------------------------------------
(* Values of the state that a phase does not use *)

NoConfig ==
    [ numStaticPostures |-> 1, num_dofs |-> 1,
      ignoreLinksForCollision |-> {}, ignoreLinkPairsForCollision |-> {},
      trajectoryAngleRanges |-> << >>, initialPostures |-> << >>,
      showOptimizationGraph |-> FALSE ]

NoCall ==
    [ called |-> FALSE, iter |-> 0,
      x |-> << >>, is_gradient |-> FALSE, f |-> 0, g |-> << >>,
      fail |-> FALSE, c |-> FALSE, g_cnt |-> 0, writes |-> << >>, slot_of |-> << >>,
      oob |-> FALSE, calls |-> {}, overlaps |-> {} ]

EmptyProblem == [ objs |-> << >>, vars |-> << >>, cons |-> << >> ]
EmptyGraph == [ xar |-> << >>, yar |-> << >>, x_constr |-> << >> ]

----------------------------------------------------------------------------
(* The constructor's neighbour analysis, step by step *)

InitMerge ==
    /\ pc = "init"
    /\ idyn_model \in UNION { Models(n) : n \in 2..MaxLinks }
    /\ config = NoConfig
    /\ neighbors = [name \in LinkNames(idyn_model) |-> [links |-> << >>, joints |-> << >>]]
    /\ link_l = 0
    /\ nb_i = 1
    /\ world = 0
    /\ dynComp_q = << >>
    /\ iter_cnt = 0
    /\ budget = 0
    /\ last_best_f = Inf
    /\ last_best_sol = << >>
    /\ opt_prob = EmptyProblem
    /\ graph = EmptyGraph
    /\ last = NoCall
    /\ ref = NoCall

evalVars == << config, world, dynComp_q, iter_cnt, budget, last_best_f,
               last_best_sol, opt_prob, graph, last, ref >>

\* lines 59-70
BuildNeighbors ==
    /\ pc = "init"
    /\ neighbors' = DirectNeighbors(idyn_model)
    /\ link_l' = 0
    /\ nb_i' = 1
    /\ pc' = "merge"
    /\ UNCHANGED << idyn_model, evalVars >>

\* lines 76-89: the body of the loop of line 76 for the next list element
MergeNbStep ==
    /\ pc = "merge"
    /\ link_l < getNrOfLinks(idyn_model)
    /\ nb_i <= Len(neighbors_tmp(neighbors)[getLinkName(link_l)].links)
    /\ neighbors' = MergeNb(idyn_model, neighbors, link_l,
                            neighbors_tmp(neighbors)[getLinkName(link_l)].links[nb_i])
    /\ nb_i' = nb_i + 1
    /\ UNCHANGED << pc, link_l, idyn_model, evalVars >>

\* line 76 exhausted: next l of line 74
MergeNextLink ==
    /\ pc = "merge"
    /\ link_l < getNrOfLinks(idyn_model)
    /\ nb_i > Len(neighbors_tmp(neighbors)[getLinkName(link_l)].links)
    /\ link_l' = link_l + 1
    /\ nb_i' = 1
    /\ UNCHANGED << pc, neighbors, idyn_model, evalVars >>

\* line 74 exhausted
MergeDone ==
    /\ pc = "merge"
    /\ link_l >= getNrOfLinks(idyn_model)
    /\ pc' = "done"
    /\ UNCHANGED << neighbors, link_l, nb_i, idyn_model, evalVars >>

NextMerge == BuildNeighbors \/ MergeNbStep \/ MergeNextLink \/ MergeDone

\* the constructor is sequential code: it keeps running until it returns
SpecMerge == InitMerge /\ [][NextMerge]_vars /\ WF_vars(NextMerge)

----------------------------------------------------------------------------
(* addVarsAndConstraints, lines 234-268 *)

\* self.model.jointNames[d]
model_jointNames(d) == JointNameList[d + 1]

\* self.limits[d_n] (URDFHelpers.getJointLimits, line 31): joint d has the
\* physical range [-(d+3), d+3]
limits(d_n) == [lower |-> 0 - (getJointIndex(d_n) + 2), upper |-> getJointIndex(d_n) + 2]

\* 'p_{} q_{}'.format(p, d)
VarName(p, d) == "p_" \o ToString(p) \o " q_" \o ToString(d)

\* lines 247-263 with the override looked up by posture index
DeclaredVarRangeByPosture(cfg, p, d) ==
    LET d_n == model_jointNames(d)
        ranges == cfg.trajectoryAngleRanges
        use_range == Len(ranges) > p /\ ranges[p + 1] # << >>
    IN  [ name |-> VarName(p, d), type |-> "c",
          value |-> IF Len(cfg.initialPostures) > p
                    THEN cfg.initialPostures[p + 1][d + 1] ELSE 0,
          lower |-> IF use_range THEN ranges[p + 1][1] ELSE limits(d_n).lower,
          upper |-> IF use_range THEN ranges[p + 1][2] ELSE limits(d_n).upper ]

\* lines 247-263: the variable declared for posture p, joint d
DeclaredVar(cfg, p, d) ==
    LET d_n == model_jointNames(d)
        ranges == cfg.trajectoryAngleRanges
        use_range == Len(ranges) > d /\ ranges[d + 1] # << >>
    IN  [ name |-> VarName(p, d), type |-> "c",
          value |-> IF Len(cfg.initialPostures) > p
                    THEN cfg.initialPostures[p + 1][d + 1] ELSE 0,
          lower |-> IF use_range THEN ranges[d + 1][1] ELSE limits(d_n).lower,
          upper |-> IF use_range THEN ranges[d + 1][2] ELSE limits(d_n).upper ]

\* lines 245-263: the loops append one variable per (p, d), d innermost
DeclaredVars(cfg) ==
    [ i \in 1..(cfg.numStaticPostures * cfg.num_dofs) |->
        DeclaredVar(cfg, (i - 1) \div cfg.num_dofs, (i - 1) % cfg.num_dofs) ]

\* line 268
DeclaredConGroup(cfg, m) ==
    [ name |-> "g", n |-> num_constraints(cfg, m), type |-> "i", lower |-> 0, upper |-> Inf ]

AddVarsAndConstraints ==
    /\ pc = "constructed"
    /\ opt_prob' = [ objs |-> Append(opt_prob.objs, "f"),
                     vars |-> opt_prob.vars \o DeclaredVars(config),
                     cons |-> Append(opt_prob.cons, DeclaredConGroup(config, idyn_model)) ]
    /\ pc' = "running"
    /\ UNCHANGED << idyn_model, config, neighbors, link_l, nb_i, world, dynComp_q,
                    iter_cnt, budget, last_best_f, last_best_sol, graph, last, ref >>

----------------------------------------------------------------------------
(* objectiveFunc, lines 141-231, called by the solver with a design vector  *)
(* x and the flag opt_prob.is_gradient.  The prints, the plot of line 201   *)
(* and config['verbose'] (set to 0 on line 192, restored on line 198) leave *)
(* no trace in the state.  iter_cnt starts at 0 and the incumbent at        *)
(* (inf, none), as the Optimizer base class leaves them at the start of a   *)
(* run.                                                                     *)

\* the k-th design vector the solver proposes: posture p holds the binary
\* digits of k + p, one digit per joint
Candidate(cfg, k) ==
    [ i \in 1..(cfg.numStaticPostures * cfg.num_dofs) |->
        ((k + ((i - 1) \div cfg.num_dofs)) \div (2 ^ ((i - 1) % cfg.num_dofs))) % 2 ]

ObjectiveFunc ==
    /\ pc = "running"
    /\ iter_cnt < budget
    /\ \E k \in 0..(NumCandidates - 1) :
       \E st \in { Constraints(config, idyn_model, neighbors, world, dynComp_q,
                               Candidate(config, k)) } :
       \E is_gradient \in BOOLEAN,
          observe \in IF iter_cnt + 1 < budget THEN BOOLEAN ELSE {FALSE} :
        LET x == Candidate(config, k)
            angles == vecToParam(config, x)
            f == SimIdentify(world, angles)
            c == testConstraints(st.g)
            best == UpdateIncumbent(c, f, x, last_best_f, last_best_sol)
            call == [ called |-> TRUE, iter |-> iter_cnt + 1,
                      x |-> x, is_gradient |-> is_gradient,
                      f |-> f, g |-> st.g, fail |-> FALSE, c |-> c,
                      g_cnt |-> st.g_cnt, writes |-> st.writes, slot_of |-> st.slot_of,
                      oob |-> st.oob, calls |-> st.calls, overlaps |-> st.overlaps ]
        IN  /\ iter_cnt' = iter_cnt + 1
            /\ dynComp_q' = st.robot_q
            /\ IF st.oob
               THEN \* IndexError at the write: the call does not return
                    /\ pc' = "crashed"
                    /\ UNCHANGED << graph, last_best_f, last_best_sol, last, ref >>
               ELSE /\ pc' = pc
                    /\ graph' = IF ~is_gradient /\ config.showOptimizationGraph
                                THEN [ xar |-> Append(graph.xar, iter_cnt'),
                                       yar |-> Append(graph.yar, f),
                                       x_constr |-> Append(graph.x_constr, c) ]
                                ELSE graph
                    /\ last_best_f' = best.f
                    /\ last_best_sol' = best.sol
                    /\ last' = call
                    /\ ref' = IF ~ref.called /\ observe THEN call ELSE ref
    /\ UNCHANGED << idyn_model, config, neighbors, link_l, nb_i, world, budget, opt_prob >>

NextEval == AddVarsAndConstraints \/ ObjectiveFunc

NextVars == AddVarsAndConstraints

\* the state the constructor leaves, for a given model and configuration
Built(m, cfg, w, calls) ==
    /\ pc = "constructed"
    /\ idyn_model = m
    /\ config = cfg
    /\ neighbors = Constructed(m)
    /\ link_l = getNrOfLinks(m)
    /\ nb_i = 1
    /\ world = w
    /\ dynComp_q = [d \in 1..cfg.num_dofs |-> 0]
    /\ iter_cnt = 0
    /\ budget = calls
    /\ last_best_f = Inf
    /\ last_best_sol = << >>
    /\ opt_prob = EmptyProblem
    /\ graph = EmptyGraph
    /\ last = NoCall
    /\ ref = NoCall

\* the ordered pairs of distinct link names
NamePairs(m) == { << a, b >> : a, b \in LinkNames(m) } \ { << a, a >> : a \in LinkNames(m) }

AtMostOne(S) == { {} } \cup { {e} : e \in S }

\* the kinematic trees without fixed joints
MovableModels(n) == { m \in Models(n) : \A j \in 1..(n - 1) : ~m.fixed[j] }

\* runs of several objective calls on a robot with no fixed joints and no
\* ignore lists
Init ==
    \E m \in MovableModels(NumLinks), w \in Worlds :
        Built(m, [ numStaticPostures |-> MaxPostures, num_dofs |-> MaxDofs,
                   ignoreLinksForCollision |-> {}, ignoreLinkPairsForCollision |-> {},
                   trajectoryAngleRanges |-> << >>, initialPostures |-> << >>,
                   showOptimizationGraph |-> FALSE ], w, MaxIter)

Spec == Init /\ [][NextEval]_vars

\* one objective call under every kinematic tree and every configuration of
\* the ignore lists, in one world
InitConstraints ==
    \E m \in UNION { Models(n) : n \in 2..NumLinks }, w \in {0}, P \in 1..MaxPostures :
      \E il \in AtMostOne(LinkNames(m)), ip \in AtMostOne(NamePairs(m)) :
        Built(m, [ numStaticPostures |-> P, num_dofs |-> MaxDofs,
                   ignoreLinksForCollision |-> il, ignoreLinkPairsForCollision |-> ip,
                   trajectoryAngleRanges |-> << >>, initialPostures |-> << >>,
                   showOptimizationGraph |-> TRUE ], w, 1)

SpecConstraints == InitConstraints /\ [][NextEval]_vars

\* a chain of n links with movable joints
ChainModel(n) == [n |-> n, parent |-> [j \in 1..(n-1) |-> j - 1],
                  fixed |-> [j \in 1..(n-1) |-> FALSE]]

SeqsUpTo(S, n) == UNION { [1..k -> S] : k \in 0..n }

\* the formulation alone, under every configuration of ranges and initial postures
InitVars ==
    \E n \in 2..NumLinks, P \in 1..MaxPostures, D \in 1..MaxDofs :
        \E tr \in SeqsUpTo({ << >>, << -1, 1 >> }, D + 1),
           ip \in SeqsUpTo([1..D -> {1, 2}], P) :
            Built(ChainModel(n),
                  [ numStaticPostures |-> P, num_dofs |-> D,
                    ignoreLinksForCollision |-> {}, ignoreLinkPairsForCollision |-> {},
                    trajectoryAngleRanges |-> tr, initialPostures |-> ip,
                    showOptimizationGraph |-> FALSE ], 0, 0)

SpecVars == InitVars /\ [][NextVars]_vars

----------------------------------------------------------------------------
(* Properties of the neighbour analysis *)

DirectLinks(l) == DirectNeighbors(idyn_model)[getLinkName(l)].links

IsPrefix(s, t) == Len(s) <= Len(t) /\ \A i \in 1..Len(s) : s[i] = t[i]

NoDuplicates(s) == \A i, k \in 1..Len(s) : i # k => s[i] # s[k]

\* the far sides of the fixed joints of link nb
AcrossFixedJoint(m, nb) ==
    { IF m.parent[j] = nb THEN j ELSE m.parent[j] :
        j \in { i \in 1..(m.n - 1) : (m.parent[i] = nb \/ i = nb) /\ m.fixed[i] } }

\* direct neighbours of l plus the links one fixed joint beyond a direct neighbour
OneLevelNeighbors(m, l) ==
    LET direct == { getLinkIndex(nm) : nm \in Range(DirectNeighbors(m)[getLinkName(l)].links) }
    IN  (direct \cup UNION { AcrossFixedJoint(m, nb) : nb \in direct }) \ {l}

FinalNeighbors(l) == { getLinkIndex(nm) : nm \in Range(neighbors[getLinkName(l)].links) }

MergeListsWellFormed ==
    \A l \in 0..(idyn_model.n - 1) :
        LET lst == neighbors[getLinkName(l)].links
        IN  /\ getLinkName(l) \notin Range(lst)
            /\ NoDuplicates(lst)
            /\ IsPrefix(DirectLinks(l), lst)

(* C8: the merge pass reads a snapshot and so performs exactly one level of *)
(* closure: when the constructor is done, the neighbour list of every link  *)
(* L holds exactly its direct neighbours and the links (other than L) one   *)
(* fixed joint beyond a direct neighbour.                                   *)
C8_OneLevelClosure ==
    pc = "done" =>
        \A l \in 0..(idyn_model.n - 1) :
            FinalNeighbors(l) = OneLevelNeighbors(idyn_model, l)

(* C9: for every kinematic tree the merge pass terminates, and from the     *)
(* first pass on no neighbour list contains its own link or a name twice,   *)
(* and the direct neighbours stay in place at the head of the list.         *)
C9_MergeTerminatesWellFormed ==
    /\ <>(pc = "done")
    /\ [](pc \in {"merge", "done"} => MergeListsWellFormed)

\* a finished pass that appended two or more links to one list
C9_Witness ==
    /\ pc = "done"
    /\ \E l \in 0..(idyn_model.n - 1) :
          Len(neighbors[getLinkName(l)].links) >= Len(DirectLinks(l)) + 2

----------------------------------------------------------------------------
(* Properties of objectiveFunc *)

\* the unordered link pairs, as index pairs l0 < l1
LinkPairs(n) == { pr \in (0..(n - 1)) \X (0..(n - 1)) : pr[1] < pr[2] }

\* position of (l0, l1) in the lexicographic order of the pairs
PairRank(n, l0, l1) ==
    Cardinality({ pr \in LinkPairs(n) : pr[1] < l0 \/ (pr[1] = l0 /\ pr[2] < l1) })

\* the slot (0-based) of posture p and pair (l0, l1)
SlotIndex(n, p, l0, l1) == p * Cardinality(LinkPairs(n)) + PairRank(n, l0, l1)

\* the entry of the latest g for posture p and pair (l0, l1)
Entry(p, l0, l1) == last.g[SlotIndex(idyn_model.n, p, l0, l1) + 1]

Postures == 0..(config.numStaticPostures - 1)

AllPositive(g) == \A i \in 1..Len(g) : g[i] > 0

(* C1: the incumbent changes only on a call whose g is entry-wise > 0 and   *)
(* whose f is strictly below the current last_best_f, and then becomes      *)
(* (f, x); last_best_f never increases; every other call, real step or      *)
(* gradient probe, leaves last_best_f and last_best_sol as they were.       *)
C1_IncumbentOnlyImproves ==
    [][ /\ last_best_f' <= last_best_f
        /\ (last_best_f' # last_best_f \/ last_best_sol' # last_best_sol)
              => /\ last'.iter = iter_cnt + 1
                 /\ AllPositive(last'.g)
                 /\ last'.f < last_best_f
                 /\ last_best_f' = last'.f
                 /\ last_best_sol' = last'.x
        /\ (last'.iter = iter_cnt + 1 /\ ~(AllPositive(last'.g) /\ last'.f < last_best_f))
              => (last_best_f' = last_best_f /\ last_best_sol' = last_best_sol) ]_vars

\* a feasible gradient probe that is no better than the incumbent and left it alone
C1_Witness ==
    /\ last.called /\ last.is_gradient
    /\ AllPositive(last.g)
    /\ last.f >= last_best_f
    /\ last_best_f < Inf
    /\ last_best_sol # last.x

(* C2: one call writes every slot of g exactly once, num_postures *         *)
(* C(num_links,2) slots in all, never past the end, and the value of        *)
(* posture p and pair (l0,l1) goes to slot p*C(num_links,2) + rank(l0,l1).  *)
C2_SlotLayout ==
    last.called =>
        LET n == idyn_model.n
            total == config.numStaticPostures * Cardinality(LinkPairs(n))
        IN  /\ ~last.oob
            /\ Len(last.g) = total
            /\ last.g_cnt = total
            /\ \A i \in 1..total : last.writes[i] = 1
            /\ DOMAIN last.slot_of = { <<p, pr[1], pr[2]>> : p \in Postures, pr \in LinkPairs(n) }
            /\ \A p \in Postures, pr \in LinkPairs(n) :
                  last.slot_of[<<p, pr[1], pr[2]>>] = SlotIndex(n, p, pr[1], pr[2])

\* two postures of three links, with ignored, neighbouring and measured pairs
C2_Witness ==
    /\ last.called
    /\ config.numStaticPostures >= 2
    /\ idyn_model.n >= 3
    /\ config.ignoreLinkPairsForCollision # {}
    /\ last.calls # {}
    /\ Cardinality(last.calls) < Len(last.g)

IsIgnoredOrNeighbor(l0, l1) ==
    LET l0_name == getLinkName(l0)
        l1_name == getLinkName(l1)
    IN  \/ l0_name \in config.ignoreLinksForCollision
        \/ l1_name \in config.ignoreLinksForCollision
        \/ l0_name \in Range(neighbors[l1_name].links)
        \/ l1_name \in Range(neighbors[l0_name].links)

(* C3: for every posture and every pair with a link on                      *)
(* ignoreLinksForCollision, or with either link in the other's neighbour    *)
(* list, the entry of g is exactly 10.0 and getLinkDistance is not called.  *)
C3_IgnoredAndNeighborsAreTen ==
    last.called =>
        \A p \in Postures, pr \in LinkPairs(idyn_model.n) :
            IsIgnoredOrNeighbor(pr[1], pr[2]) =>
                /\ Entry(p, pr[1], pr[2]) = IgnoredDistance
                /\ <<p, pr[1], pr[2]>> \notin last.calls

\* a call on a robot where a pair is a neighbour in one direction only (by
\* the fixed-joint merge), the other pairs being measured or ignored
C3_Witness ==
    /\ last.called
    /\ \E pr \in LinkPairs(idyn_model.n) :
          /\ getLinkName(pr[2]) \in Range(neighbors[getLinkName(pr[1])].links)
          /\ getLinkName(pr[1]) \notin Range(neighbors[getLinkName(pr[2])].links)
          /\ config.ignoreLinksForCollision = {}

(* C4: for every pair configured in ignoreLinkPairsForCollision, in either  *)
(* order of its two names, the entry of g is exactly 10.0 for every posture *)
(* and getLinkDistance is not called for it.                                *)
C4_IgnoredPairEitherOrder ==
    last.called =>
        \A cp \in config.ignoreLinkPairsForCollision, p \in Postures :
            LET a == getLinkIndex(cp[1])
                b == getLinkIndex(cp[2])
                l0 == IF a < b THEN a ELSE b
                l1 == IF a < b THEN b ELSE a
            IN  /\ Entry(p, l0, l1) = IgnoredDistance
                /\ <<p, l0, l1>> \notin last.calls

(* C5: whenever the distance query reports an overlap for a measured pair,  *)
(* the entry of g is negative, so the candidate is infeasible and is not    *)
(* the incumbent.                                                           *)
C5_OverlapIsNegative ==
    last.called =>
        /\ \A t \in last.overlaps : Entry(t[1], t[2], t[3]) < 0
        /\ last.overlaps # {} => (~last.c /\ last_best_sol # last.x)

(* C7: two calls with the same x return the same (f, g, fail), whatever     *)
(* happened between them (other calls, incumbent updates, gradient probes,  *)
(* the robot state left in the kinematics model), and fail is false.        *)
C7_ResultDependsOnXOnly ==
    /\ last.called => last.fail = FALSE
    /\ (ref.called /\ last.called /\ ref.x = last.x)
          => (last.f = ref.f /\ last.g = ref.g /\ last.fail = ref.fail)

\* the same x evaluated again, once as a step and once as a probe, after a
\* call in between, with distance queries made
C7_Witness ==
    /\ ref.called /\ last.called
    /\ ref.x = last.x
    /\ last.iter >= ref.iter + 2
    /\ ref.is_gradient # last.is_gradient
    /\ last.calls # {}
    /\ last_best_sol # << >> /\ last_best_sol # last.x

(* C10: testConstraints(g) is true exactly when every entry of g lies       *)
(* within the bounds declared for constraint group 'g'.                     *)
C10_FeasibilityMatchesDeclaredBounds ==
    (last.called /\ Len(opt_prob.cons) = 1) =>
        (last.c <=> \A i \in 1..Len(last.g) :
                        /\ opt_prob.cons[1].lower <= last.g[i]
                        /\ last.g[i] <= opt_prob.cons[1].upper)

----------------------------------------------------------------------------
(* Properties of addVarsAndConstraints *)

\* the design vector whose entry i (0-based) is i
IndexVector(cfg) == [i \in 1..(cfg.numStaticPostures * cfg.num_dofs) |-> i - 1]

(* C6: exactly num_postures * num_dofs continuous variables are declared,   *)
(* variable p*num_dofs + d being 'p_<p> q_<d>' (the entry vecToParam gives  *)
(* to posture p, joint d), bounded by trajectoryAngleRanges[d] when that    *)
(* exists and is not None and by the joint's limits otherwise, starting at  *)
(* initialPostures[p][d] when that posture exists and at 0.0 otherwise; and *)
(* one inequality group 'g' of num_postures * C(num_links,2) entries with   *)
(* bounds [0.0, +inf].                                                      *)
C6_DeclaredProblem ==
    pc = "running" =>
        LET P == config.numStaticPostures
            D == config.num_dofs
            tr == config.trajectoryAngleRanges
            ip == config.initialPostures
        IN  /\ opt_prob.objs = << "f" >>
            /\ Len(opt_prob.vars) = P * D
            /\ \A p \in 0..(P - 1), d \in 0..(D - 1) :
                  LET v == opt_prob.vars[p * D + d + 1]
                      lim == limits(JointNameList[d + 1])
                      override == d < Len(tr) /\ tr[d + 1] # << >>
                  IN  /\ v.name = "p_" \o ToString(p) \o " q_" \o ToString(d)
                      /\ v.type = "c"
                      /\ v.lower = IF override THEN tr[d + 1][1] ELSE lim.lower
                      /\ v.upper = IF override THEN tr[d + 1][2] ELSE lim.upper
                      /\ v.value = IF p < Len(ip) THEN ip[p + 1][d + 1] ELSE 0
                      /\ vecToParam(config, IndexVector(config))[p + 1].angles[d + 1]
                            = p * D + d
            /\ opt_prob.cons =
                  << [ name |-> "g", type |-> "i", lower |-> 0, upper |-> Inf,
                       n |-> P * Cardinality(LinkPairs(idyn_model.n)) ] >>

\* two postures of two joints: one joint overridden, one not; one posture
\* with a configured start, one without
C6_Witness ==
    /\ pc = "running"
    /\ config.numStaticPostures = 2 /\ config.num_dofs = 2
    /\ Len(config.trajectoryAngleRanges) = 2
    /\ config.trajectoryAngleRanges[1] = << >>
    /\ config.trajectoryAngleRanges[2] # << >>
    /\ Len(config.initialPostures) = 1
    /\ Len(opt_prob.vars) = 4

=============================================================================
